---------------------------- MODULE Spec2Model ----------------------------
(***************************************************************************)
(* Model of EPNucleonEnergyCorrelatorPrototype.cxx: the per-event          *)
(* Filter / Define chain of the RDataFrame, the histogram bookings and the *)
(* open / write / close shell around them.                                 *)
(*                                                                         *)
(* Numbers.  A float is held as a fixed-point integer in units of 1/1000   *)
(* (5.0 GeV^2 is 5000).  Three reserved codes stand for the IEEE values    *)
(* NaN, -inf and +inf; NegInf and PosInf order below and above every       *)
(* finite value, NaN compares false with everything (Lt).  std::log,       *)
(* anglePolar and log(tan(angle/2)) are tabulated, to three decimals, on   *)
(* the inputs the bounded event set can produce.                           *)
(***************************************************************************)
EXTENDS Integers, Sequences, FiniteSets, TLC

\* ------------------------------------------------------------------ bounds
\* longest input file the model explores, in events
MaxEvents == 2

\* ------------------------------------------------------------ float values
NaN == 888888888
NegInf == -999999999
PosInf == 999999999

IsFinite(v) == v # NaN /\ v # NegInf /\ v # PosInf

\* a < b on floats: false as soon as one side is NaN
Lt(a, b) == a # NaN /\ b # NaN /\ a < b

\* a * b on floats (fixed point)
Mul(a, b) ==
  IF IsFinite(a) /\ IsFinite(b) THEN (a * b) \div 1000 ELSE NaN

\* std::log on floats
StdLog(num) ==
  IF num = NaN THEN NaN
  ELSE IF num = PosInf THEN PosInf
  ELSE IF num < 0 THEN NaN
  ELSE IF num = 0 THEN NegInf
  ELSE CASE num = 250    -> -1386
         [] num = 500    -> -693
         [] num = 1000   -> 0
         [] num = 5000   -> 1609
         [] num = 7000   -> 1946
         [] num = 10000  -> 2303
         [] num = 25000  -> 3219
         [] num = 100000 -> 4605
         [] num = 150000 -> 5011

\* --------------------------------------------------------------- options
\* Options::minQ2, Options::maxQ2 of DefaultOptions, and the collection names
MinQ2 == 0
MaxQ2 == 100000

RecKine == "InclusiveKinematicsElectron"
GenKine == "InclusiveKinematicsTruth"
RecPars == "ReconstructedBreitFrameParticles"
GenPars == "GeneratedBreitFrameParticles"

\* -------------------------------------------------------- axes, registry
\* std::map<std::string, Axis> axes
axes ==
  [ ene    |-> [title |-> "E [GeV]",              num |-> 201, start |-> -1000,  stop |-> 200000],
    ang    |-> [title |-> "#theta_{breit} [rad]", num |-> 90,  start |-> -3150,  stop |-> 3150],
    rap    |-> [title |-> "y = ln tan(#theta/2)", num |-> 200, start |-> -15000, stop |-> 5000],
    weight |-> [title |-> "E/E_{p}",              num |-> 21,  start |-> -100,   stop |-> 2000],
    x      |-> [title |-> "x_{B}",                num |-> 21,  start |-> -100,   stop |-> 2000],
    lnx    |-> [title |-> "ln x_{B}",             num |-> 300, start |-> -20000, stop |-> 10000],
    q      |-> [title |-> "Q^{2} [GeV/c]^{2}",    num |-> 101, start |-> -10000, stop |-> 1000000],
    lnq    |-> [title |-> "ln Q^{2}",             num |-> 51,  start |-> -1000,  stop |-> 50000] ]

\* makeHist1D(axis, name): the model of a 1D histogram
makeHist1D(axis, name) ==
  [name |-> name, dim |-> 1,
   xtitle |-> axes[axis].title, xnum |-> axes[axis].num,
   xstart |-> axes[axis].start, xstop |-> axes[axis].stop,
   ytitle |-> "", ynum |-> 0, ystart |-> 0, ystop |-> 0]

\* makeHist2D(xaxis, yaxis, name): the model of a 2D histogram
makeHist2D(xaxis, yaxis, name) ==
  [name |-> name, dim |-> 2,
   xtitle |-> axes[xaxis].title, xnum |-> axes[xaxis].num,
   xstart |-> axes[xaxis].start, xstop |-> axes[xaxis].stop,
   ytitle |-> axes[yaxis].title, ynum |-> axes[yaxis].num,
   ystart |-> axes[yaxis].start, ystop |-> axes[yaxis].stop]

\* std::map<std::string, TH1Def> hist1D
hist1D ==
  [ necXyrec  |-> makeHist1D("rap", "hNECVsRapRec"),
    necXygen  |-> makeHist1D("rap", "hNECVsRapGen"),
    necXthrec |-> makeHist1D("ang", "hNECVsThetaRec"),
    necXthgen |-> makeHist1D("ang", "hNECVsThetaGen"),
    thparrec  |-> makeHist1D("ang", "hThetaParRec"),
    thpargen  |-> makeHist1D("ang", "hThetaParGen"),
    yparrec   |-> makeHist1D("rap", "hRapParRec"),
    ypargen   |-> makeHist1D("rap", "hRapParGen"),
    eparrec   |-> makeHist1D("ene", "hEneParRec"),
    epargen   |-> makeHist1D("ene", "hEneParGen"),
    enucrec   |-> makeHist1D("ene", "hEneNucRec"),
    enucgen   |-> makeHist1D("ene", "hEneNucGen"),
    weight    |-> makeHist1D("weight", "hEneFrac"),
    xrec      |-> makeHist1D("x", "hXBRec"),
    xgen      |-> makeHist1D("x", "hXBGen"),
    lnxrec    |-> makeHist1D("lnx", "hLogXBRec"),
    lnxgen    |-> makeHist1D("lnx", "hLogXBGen"),
    qrec      |-> makeHist1D("q", "hQ2Rec"),
    qgen      |-> makeHist1D("q", "hQ2Gen"),
    lnqrec    |-> makeHist1D("lnq", "hLogQ2Rec"),
    lnqgen    |-> makeHist1D("lnq", "hLogQ2Gen") ]

\* std::map<std::string, TH2Def> hist2D
hist2D ==
  [ xrecXgen   |-> makeHist2D("x", "x", "hXBRecVsGen"),
    lnxrecXgen |-> makeHist2D("lnx", "lnx", "hLogXBRecVsGen"),
    qrecXgen   |-> makeHist2D("q", "q", "hQ2RecVsGen"),
    lnqrecXgen |-> makeHist2D("lnq", "lnq", "hLogQ2RecVsGen") ]

\* the names of every histogram the registry declares
DeclaredNames ==
  {hist1D[k].name : k \in DOMAIN hist1D} \cup {hist2D[k].name : k \in DOMAIN hist2D}

\* ----------------------------------------------------- analysis lambdas
\* hasKine: the inclusive kinematics collection is not empty
hasKine(kines) == kines # <<>>

\* hasPars: the particle collection is not empty
hasPars(pars) == pars # <<>>

\* cutQ2 with the bounds included
cutQ2Inclusive(q2) == ~Lt(q2, MinQ2) /\ ~Lt(MaxQ2, q2) /\ q2 # NaN

\* cutQ2: strictly inside (minQ2, maxQ2)
cutQ2(q2) == Lt(MinQ2, q2) /\ Lt(q2, MaxQ2)

\* std::vector::front(): the first record; on an empty vector the read is
\* undefined and yields whatever `mem` the storage holds
front(kines, mem) == IF kines # <<>> THEN kines[1] ELSE mem

\* getQ2: Q2 of the first record
getQ2(kines, mem) == front(kines, mem).Q2

\* getXB: x of the first record
getXB(kines, mem) == front(kines, mem).x

\* doLog: natural logarithm
doLog(num) == StdLog(num)

\* getEnergies: the energy of each particle, in order
getEnergies(pars) == [i \in DOMAIN pars |-> pars[i].energy]

\* edm4hep::utils::anglePolar = atan2(hypot(x, y), z)
anglePolar(m) ==
  CASE m[1] = 0 /\ m[2] = 0 /\ m[3] >= 0 -> 0
    [] m[1] = 0 /\ m[2] = 0 /\ m[3] < 0  -> 3142
    [] m = <<30000, 0, 40000>>           -> 644
    [] m = <<40000, 0, 30000>>           -> 927

\* getBreitAngles: the polar angle of each particle's momentum
getBreitAngles(pars) == [i \in DOMAIN pars |-> anglePolar(pars[i].momentum)]

\* std::log(std::tan(angle/2)) in float: tan(0) = 0 gives -inf; float(pi)/2
\* lies above pi/2, where tan is negative, and the log of it is NaN
LogTanHalf(angle) ==
  CASE angle = 0    -> NegInf
    [] angle = 644  -> -1099
    [] angle = 927  -> -693
    [] angle = 3142 -> NaN

\* getRapidity: ln tan(angle/2) of each angle
getRapidity(angles) == [i \in DOMAIN angles |-> LogTanHalf(angles[i])]

\* getWeights without the factor xb
getWeightsNoXB(energies, xb) ==
  [i \in DOMAIN energies |-> energies[i] \div 100]

\* getWeights: xb * (energy / 100.) for each energy
getWeights(energies, xb) ==
  [i \in DOMAIN energies |-> Mul(xb, energies[i] \div 100)]


\* ------------------------------------------------------- histogram sink
\* a freshly booked histogram: no entries, no bin touched
EmptyHist == [entries |-> 0, bins |-> [b \in {} |-> 0]]

\* TAxis::FindBin: 0 is the underflow bin, num + 1 the overflow bin (where
\* NaN lands as well, since NaN < stop is false)
FindBin(num, start, stop, v) ==
  IF Lt(v, start) THEN 0
  ELSE IF ~Lt(v, stop) THEN num + 1
  ELSE 1 + (num * (v - start)) \div (stop - start)

\* add weight w to bin b: sum of weights and sum of squared weights
AddBin(bins, b, w) ==
  IF b \in DOMAIN bins
    THEN [bins EXCEPT ![b] = [sumw |-> @.sumw + w, sumw2 |-> @.sumw2 + w * w]]
    ELSE bins @@ (b :> [sumw |-> w, sumw2 |-> w * w])

\* a fill that leaves out a value that is NaN or infinite
Fill1DSkipNonFinite(h, def, v, w) ==
  IF IsFinite(v)
    THEN [entries |-> h.entries + 1,
          bins |-> AddBin(h.bins, FindBin(def.xnum, def.xstart, def.xstop, v), w)]
    ELSE h

\* TH1::Fill(v, w)
Fill1D(h, def, v, w) ==
  [entries |-> h.entries + 1,
   bins |-> AddBin(h.bins, FindBin(def.xnum, def.xstart, def.xstop, v), w)]

\* TH2::Fill(vx, vy): the global bin is binx + (nx + 2) * biny
Fill2D(h, def, vx, vy) ==
  [entries |-> h.entries + 1,
   bins |-> AddBin(h.bins,
                   FindBin(def.xnum, def.xstart, def.xstop, vx)
                     + (def.xnum + 2) * FindBin(def.ynum, def.ystart, def.ystop, vy),
                   1000)]

\* the Histo1D / Histo2D bookings, in booking order: the histogram model, the
\* column filled (x), and the weight column (1D) or the second column (2D)
BookingList ==
  << [def |-> hist1D["xrec"],      x |-> "xbRec",   y |-> "", w |-> ""],
     [def |-> hist1D["xgen"],      x |-> "xbGen",   y |-> "", w |-> ""],
     [def |-> hist1D["lnxrec"],    x |-> "lnXBRec", y |-> "", w |-> ""],
     [def |-> hist1D["lnxgen"],    x |-> "lnXBGen", y |-> "", w |-> ""],
     [def |-> hist1D["qrec"],      x |-> "q2Rec",   y |-> "", w |-> ""],
     [def |-> hist1D["qgen"],      x |-> "q2Gen",   y |-> "", w |-> ""],
     [def |-> hist1D["lnqrec"],    x |-> "lnQ2Rec", y |-> "", w |-> ""],
     [def |-> hist1D["lnqgen"],    x |-> "lnQ2Gen", y |-> "", w |-> ""],
     [def |-> hist1D["thparrec"],  x |-> "thRec",   y |-> "", w |-> ""],
     [def |-> hist1D["thpargen"],  x |-> "thGen",   y |-> "", w |-> ""],
     [def |-> hist1D["yparrec"],   x |-> "yRec",    y |-> "", w |-> ""],
     [def |-> hist1D["ypargen"],   x |-> "yGen",    y |-> "", w |-> ""],
     [def |-> hist1D["necXyrec"],  x |-> "yRec",    y |-> "", w |-> "wRec"],
     [def |-> hist1D["necXygen"],  x |-> "yGen",    y |-> "", w |-> "wGen"],
     [def |-> hist1D["necXthrec"], x |-> "thRec",   y |-> "", w |-> "wRec"],
     [def |-> hist1D["necXthgen"], x |-> "thGen",   y |-> "", w |-> "wGen"],
     [def |-> hist2D["xrecXgen"],   x |-> "xbGen",   y |-> "xbRec",   w |-> ""],
     [def |-> hist2D["lnxrecXgen"], x |-> "lnXBGen", y |-> "lnXBRec", w |-> ""],
     [def |-> hist2D["qrecXgen"],   x |-> "q2Gen",   y |-> "q2Rec",   w |-> ""],
     [def |-> hist2D["lnqrecXgen"], x |-> "lnQ2Gen", y |-> "lnQ2Rec", w |-> ""] >>

\* the bookings with hXBRec booked on a per-particle column
BookingsPerParticle == [BookingList EXCEPT ![1].x = "wRec"]

\* the bookings of the analysis node
Bookings == BookingList

\* the names of the histograms that are booked, hence filled
BookedNames == {Bookings[i].def.name : i \in DOMAIN Bookings}

\* the Write() calls, in order
WriteOrder ==
  << "hXBRec", "hXBGen", "hLogXBRec", "hLogXBGen", "hQ2Rec", "hQ2Gen",
     "hLogQ2Rec", "hLogQ2Gen", "hXBRecVsGen", "hLogXBRecVsGen", "hQ2RecVsGen",
     "hLogQ2RecVsGen", "hThetaParRec", "hThetaParGen", "hRapParRec",
     "hRapParGen", "hNECVsRapRec", "hNECVsRapGen", "hNECVsThetaRec",
     "hNECVsThetaGen" >>

\* the Define chain: every column of one event.  A scalar column is held as
\* a one-element sequence, a per-particle column as one element per particle.
\* mem is what front() yields on an empty InclusiveKinematicsTruth.
Columns(e, mem) ==
  LET q2Rec == getQ2(e.kinRec, mem)
      q2Gen == getQ2(e.kinGen, mem)
      xbRec == getXB(e.kinRec, mem)
      xbGen == getXB(e.kinGen, mem)
      eRec  == getEnergies(e.parsRec)
      eGen  == getEnergies(e.parsGen)
      thRec == getBreitAngles(e.parsRec)
      thGen == getBreitAngles(e.parsGen)
  IN [ q2Rec   |-> <<q2Rec>>,
       q2Gen   |-> <<q2Gen>>,
       lnQ2Rec |-> <<doLog(q2Rec)>>,
       lnQ2Gen |-> <<doLog(q2Gen)>>,
       xbRec   |-> <<xbRec>>,
       xbGen   |-> <<xbGen>>,
       lnXBRec |-> <<doLog(xbRec)>>,
       lnXBGen |-> <<doLog(xbGen)>>,
       eRec    |-> eRec,
       eGen    |-> eGen,
       wRec    |-> getWeights(eRec, xbRec),
       wGen    |-> getWeights(eGen, xbGen),
       thRec   |-> thRec,
       thGen   |-> thGen,
       yRec    |-> getRapidity(thRec),
       yGen    |-> getRapidity(thGen) ]

\* one booked action on one event: a fill per element of its column, with
\* the element of the weight column at the same index when there is one
RECURSIVE FillColumn(_, _, _, _)
FillColumn(h, bk, cols, i) ==
  IF i > Len(cols[bk.x]) THEN h
  ELSE FillColumn(
         IF bk.def.dim = 2
           THEN Fill2D(h, bk.def, cols[bk.x][i], cols[bk.y][i])
           ELSE Fill1D(h, bk.def, cols[bk.x][i],
                       IF bk.w = "" THEN 1000 ELSE cols[bk.w][i]),
         bk, cols, i + 1)

\* every booked action on one event
FillAll(hs, cols) ==
  [n \in DOMAIN hs |->
     LET bk == CHOOSE b \in {Bookings[i] : i \in DOMAIN Bookings} : b.def.name = n
     IN FillColumn(hs[n], bk, cols, 1)]


\* ------------------------------------------------------------- the input
K(q2, xb) == [Q2 |-> q2, x |-> xb]
P(en, mom) == [energy |-> en, momentum |-> mom]

\* the nominal event: every collection present, Q2 inside the window
NomKinRec == <<K(5000, 500)>>
NomKinGen == <<K(10000, 250)>>
NomParsRec == <<P(50000, <<30000, 0, 40000>>)>>
NomParsGen == <<P(50000, <<40000, 0, 30000>>)>>

\* InclusiveKinematicsElectron: empty; Q2 on either bound; Q2 above the
\* window; x = 0; two records
KinRecChoices ==
  { NomKinRec, <<>>, <<K(0, 500)>>, <<K(100000, 500)>>, <<K(150000, 500)>>,
    <<K(25000, 0)>>, <<K(5000, 500), K(150000, 1000)>> }

\* InclusiveKinematicsTruth: empty; Q2 above the window; Q2 = 0 and x < 0
KinGenChoices == { NomKinGen, <<>>, <<K(150000, 250)>>, <<K(0, -200)>> }

\* reconstructed particles: none; two; one along +z (polar angle 0); one at
\* rest (zero momentum)
ParsRecChoices ==
  { NomParsRec, <<>>,
    <<P(50000, <<30000, 0, 40000>>), P(20000, <<0, 0, -20000>>)>>,
    <<P(50000, <<0, 0, 50000>>)>>,
    <<P(0, <<0, 0, 0>>)>> }

\* generated particles: none; two
ParsGenChoices ==
  { NomParsGen, <<>>,
    <<P(50000, <<40000, 0, 30000>>), P(50000, <<30000, 0, 40000>>)>> }

\* how many collections of e differ from the nominal event
Deviations(e) ==
  (IF e.kinRec # NomKinRec THEN 1 ELSE 0) + (IF e.kinGen # NomKinGen THEN 1 ELSE 0)
  + (IF e.parsRec # NomParsRec THEN 1 ELSE 0) + (IF e.parsGen # NomParsGen THEN 1 ELSE 0)

\* the events of the bounded input: the nominal event and every event that
\* differs from it in one collection
Events ==
  { e \in [kinRec : KinRecChoices, kinGen : KinGenChoices,
           parsRec : ParsRecChoices, parsGen : ParsGenChoices] : Deviations(e) <= 1 }

\* the input files: every sequence of at most MaxEvents events
EventFiles == UNION { [1..n -> Events] : n \in 0..MaxEvents }

\* what a front() on an empty InclusiveKinematicsTruth can do: end the
\* process, or yield the record-sized memory found there
DanglingReads ==
  { [crash |-> TRUE,  rec |-> K(0, 0)],
    [crash |-> FALSE, rec |-> K(0, 0)],
    [crash |-> FALSE, rec |-> K(7000, 1000)] }

\* the outcomes of reading front() of kines
FrontOutcomes(kines) ==
  IF kines # <<>> THEN { [crash |-> FALSE, rec |-> kines[1]] } ELSE DanglingReads

\* ------------------------------------------------------------- the state
VARIABLES
  events,        \* the events of the input file
  outCreatable,  \* whether the output file can be created
  inReadable,    \* whether the input file can be opened
  pc,            \* position of the macro
  idx,           \* the event the loop is at (1-based)
  hists,         \* the booked histograms: name -> entries and bins
  artifact,      \* whether the output file exists on disk
  written,       \* the histograms written into the output file
  wr,            \* how many Write() calls were made
  nClose,        \* how many times the output was closed
  checked,       \* collections of the current event whose emptiness check passed
  frontReads,    \* front() reads on the current event: collection and its size
  lastOutcome,   \* what became of the last event the loop finished
  declared,      \* the registry once defined: its axis specs and histogram models
  perm           \* two runs over the same events, the second in a permuted order

vars == << events, outCreatable, inReadable, pc, idx, hists, artifact, written,
           wr, nClose, checked, frontReads, lastOutcome, declared, perm >>

\* what no step of the macro changes
env == << events, outCreatable, inReadable, perm >>

\* a run of the event loop that has not started: events finished, whether
\* the process died, the histograms
FreshRun(hs) == [n |-> 0, crashed |-> FALSE, hists |-> hs]

\* the pair of runs while the macro itself is modelled: idle
NoPerm ==
  [order |-> <<>>, a |-> FreshRun([n \in {} |-> EmptyHist]),
   b |-> FreshRun([n \in {} |-> EmptyHist])]

\* the registry before the histograms are defined
NoRegistry == [axes |-> {}, hists |-> {}]

\* the registry of the macro: the axes map, hist1D and hist2D
Registry ==
  [axes  |-> {axes[k] : k \in DOMAIN axes},
   hists |-> {hist1D[k] : k \in DOMAIN hist1D} \cup {hist2D[k] : k \in DOMAIN hist2D}]

Init ==
  /\ outCreatable \in BOOLEAN
  /\ inReadable \in BOOLEAN
  /\ events \in EventFiles
  /\ (~inReadable => events = <<>>)
  /\ pc = "openOutput"
  /\ idx = 0
  /\ hists = [n \in {} |-> EmptyHist]
  /\ artifact = FALSE
  /\ written = {}
  /\ wr = 0
  /\ nClose = 0
  /\ checked = {}
  /\ frontReads = {}
  /\ lastOutcome = "none"
  /\ declared = NoRegistry
  /\ perm = NoPerm

\* new TFile(...): a new-expression yields an object, never a null pointer;
\* a file that cannot be created leaves the object a zombie
NewTFile == "TFile"
NullPtr == "nullptr"

\* create output file: TFile "recreate", then the  if (!output)  test
OpenOutput ==
  /\ pc = "openOutput"
  /\ artifact' = outCreatable
  /\ pc' = IF NewTFile = NullPtr THEN "panic" ELSE "openInput"
  /\ UNCHANGED << env, declared, idx, hists, written, wr, nClose, checked, frontReads, lastOutcome >>

\* initialize dataframe: the constructor throws on a file it cannot open
\* (nothing catches it); zero events end the macro with PANIC
OpenInput ==
  /\ pc = "openInput"
  /\ pc' = IF ~inReadable THEN "crash"
           ELSE IF Len(events) = 0 THEN "panic"
           ELSE "book"
  /\ UNCHANGED << env, declared, idx, hists, artifact, written, wr, nClose, checked,
                  frontReads, lastOutcome >>

\* define histograms, then the Histo1D / Histo2D calls create one histogram
\* per booking
BookHists ==
  /\ pc = "book"
  /\ declared' = Registry
  /\ hists' = [n \in BookedNames |-> EmptyHist]
  /\ idx' = 1
  /\ pc' = "filter"
  /\ UNCHANGED << env, artifact, written, wr, nClose, checked, frontReads, lastOutcome >>

\* a loop that hands over to the writes after any event
AfterEventEarly(i) == "write"

\* where the loop goes once event i - 1 is finished
AfterEvent(i) == IF i > Len(events) THEN "write" ELSE "filter"

\* the three emptiness filters, in chain order; a failed filter ends the event
FilterAvailability ==
  /\ pc = "filter"
  /\ LET e == events[idx]
         p1 == hasKine(e.kinRec)
         p2 == p1 /\ hasPars(e.parsRec)
         p3 == p2 /\ hasPars(e.parsGen)
     IN /\ checked' = (IF p1 THEN {RecKine} ELSE {}) \cup (IF p2 THEN {RecPars} ELSE {})
                        \cup (IF p3 THEN {GenPars} ELSE {})
        /\ frontReads' = {}
        /\ IF p3
             THEN /\ pc' = "cut"
                  /\ UNCHANGED << idx, lastOutcome >>
             ELSE /\ pc' = AfterEvent(idx + 1)
                  /\ idx' = idx + 1
                  /\ lastOutcome' = "noCollection"
  /\ UNCHANGED << env, declared, hists, artifact, written, wr, nClose >>

\* Define q2Rec (evaluated when the filter asks for it) and Filter cutQ2
FilterQ2 ==
  /\ pc = "cut"
  /\ LET e == events[idx]
         q2Rec == getQ2(e.kinRec, K(0, 0))
     IN /\ frontReads' = frontReads \cup {[coll |-> RecKine, size |-> Len(e.kinRec)]}
        /\ IF cutQ2(q2Rec)
             THEN /\ pc' = "fill"
                  /\ UNCHANGED << idx, lastOutcome >>
             ELSE /\ pc' = AfterEvent(idx + 1)
                  /\ idx' = idx + 1
                  /\ lastOutcome' = "outOfRange"
  /\ UNCHANGED << env, declared, hists, artifact, written, wr, nClose, checked >>

\* the remaining Defines and every booked fill of a surviving event; q2Gen
\* and xbGen read front() of InclusiveKinematicsTruth, which no filter checked
FillEvent ==
  /\ pc = "fill"
  /\ LET e == events[idx]
     IN \E o \in FrontOutcomes(e.kinGen) :
          /\ frontReads' = frontReads \cup {[coll |-> RecKine, size |-> Len(e.kinRec)],
                                             [coll |-> GenKine, size |-> Len(e.kinGen)]}
          /\ IF o.crash
               THEN /\ pc' = "crash"
                    /\ UNCHANGED << idx, hists, lastOutcome >>
               ELSE /\ hists' = FillAll(hists, Columns(e, o.rec))
                    /\ idx' = idx + 1
                    /\ pc' = AfterEvent(idx + 1)
                    /\ lastOutcome' = "filled"
  /\ UNCHANGED << env, declared, artifact, written, wr, nClose, checked >>

\* one Write() call: the histogram goes into the output file, when there is one
WriteHist ==
  /\ pc = "write"
  /\ wr < Len(WriteOrder)
  /\ wr' = wr + 1
  /\ written' = IF artifact THEN written \cup {WriteOrder[wr + 1]} ELSE written
  /\ UNCHANGED << env, declared, pc, idx, hists, artifact, nClose, checked, frontReads, lastOutcome >>

\* close files
CloseOutput ==
  /\ pc = "write"
  /\ wr = Len(WriteOrder)
  /\ nClose' = nClose + 1
  /\ pc' = "done"
  /\ UNCHANGED << env, declared, idx, hists, artifact, written, wr, checked, frontReads, lastOutcome >>

Next ==
  \/ OpenOutput
  \/ OpenInput
  \/ BookHists
  \/ FilterAvailability
  \/ FilterQ2
  \/ FillEvent
  \/ WriteHist
  \/ CloseOutput

Spec == Init /\ [][Next]_vars


\* ======================================================== the properties
\* every one of the four named collections of e holds a record
AllPresent(e) ==
  e.kinRec # <<>> /\ e.kinGen # <<>> /\ e.parsRec # <<>> /\ e.parsGen # <<>>

\* Q2 of the first reconstructed kinematics record lies strictly in the window
InWindow(e) == MinQ2 < e.kinRec[1].Q2 /\ e.kinRec[1].Q2 < MaxQ2

\* the fill count of histogram n: a histogram that was never booked has none
Entries(hs, n) == IF n \in DOMAIN hs THEN hs[n].entries ELSE 0

\* the sum of weights of bin b of histogram n
SumW(hs, n, b) ==
  IF n \in DOMAIN hs /\ b \in DOMAIN hs[n].bins THEN hs[n].bins[b].sumw ELSE 0

\* the loop is working on event idx
InEvent == pc \in {"filter", "cut", "fill"}

\* C1: an event with at least one of the four named collections empty is
\* rejected, and no step taken on it changes any histogram.
C1_AvailabilityGate ==
  [][ (InEvent /\ ~AllPresent(events[idx]))
        => (hists' = hists /\ lastOutcome' # "filled") ]_vars

\* C2: an event with all four collections present contributes fills exactly
\* when minQ2 < q2_rec < maxQ2, strictly; on a bound or outside the window it
\* leaves every histogram as it was; the generated Q2 plays no part.
C2_SelectionGate ==
  [][ (InEvent /\ AllPresent(events[idx]))
        => /\ pc' # "crash"
           /\ (idx' = idx) => (hists' = hists)
           /\ (idx' = idx + 1) =>
                /\ InWindow(events[idx]) <=>
                     (\E n \in DOMAIN hists : Entries(hists', n) > Entries(hists, n))
                /\ ~InWindow(events[idx]) => (hists' = hists) ]_vars

\* C2 witness: an event with Q2 on the upper bound was rejected and after it
\* an event with Q2 inside the window, and a generated Q2 outside it, filled
C2_Witness ==
  /\ idx = 3
  /\ AllPresent(events[1]) /\ events[1].kinRec[1].Q2 = MaxQ2
  /\ AllPresent(events[2]) /\ InWindow(events[2]) /\ events[2].kinGen[1].Q2 > MaxQ2
  /\ lastOutcome = "filled"
  /\ Entries(hists, "hQ2Rec") = 1

\* C3: a surviving event with N reconstructed particles raises the fill
\* count of hEneParRec by exactly N.
C3_PerParticleFold ==
  [][ (pc = "fill" /\ AllPresent(events[idx]) /\ idx' = idx + 1)
        => Entries(hists', "hEneParRec")
             = Entries(hists, "hEneParRec") + Len(events[idx].parsRec) ]_vars


\* the weight the fills of pars put into bin b of the histogram def, when
\* each particle is filled at its rapidity (atRap) or its polar angle, with
\* weight xb * (energy / 100)
RECURSIVE ExpectedW(_, _, _, _, _)
ExpectedW(pars, xb, def, atRap, b) ==
  IF pars = <<>> THEN 0
  ELSE LET p  == Head(pars)
           th == anglePolar(p.momentum)
           v  == IF atRap THEN LogTanHalf(th) ELSE th
           w  == (xb * (p.energy \div 100)) \div 1000
       IN (IF FindBin(def.xnum, def.xstart, def.xstop, v) = b THEN w ELSE 0)
            + ExpectedW(Tail(pars), xb, def, atRap, b)

\* the fills of event e land in the NEC histogram def as ExpectedW says
NECFilled(e, def, pars, xb, atRap) ==
  /\ Entries(hists', def.name) = Entries(hists, def.name) + Len(pars)
  /\ \A b \in 0..(def.xnum + 1) :
       SumW(hists', def.name, b) - SumW(hists, def.name, b)
         = ExpectedW(pars, xb, def, atRap, b)

\* C4: in a surviving event each particle of a view puts one weighted fill
\* into the view's NEC histograms, at its rapidity (hNECVsRap*) or polar
\* angle (hNECVsTheta*), with weight x_view * (energy / 100).
C4_WeightedFill ==
  [][ (pc = "fill" /\ AllPresent(events[idx]))
        => LET e == events[idx]
           IN /\ idx' = idx + 1
              /\ NECFilled(e, hist1D["necXyrec"], e.parsRec, e.kinRec[1].x, TRUE)
              /\ NECFilled(e, hist1D["necXthrec"], e.parsRec, e.kinRec[1].x, FALSE)
              /\ NECFilled(e, hist1D["necXygen"], e.parsGen, e.kinGen[1].x, TRUE)
              /\ NECFilled(e, hist1D["necXthgen"], e.parsGen, e.kinGen[1].x, FALSE) ]_vars

\* C4 witness: the single-particle event with E = 50 and x = 0.5 was filled,
\* and the bin of its rapidity, ln(1/3), holds 0.5 * (50/100) = 0.25
C4_Witness ==
  /\ idx = 2
  /\ lastOutcome = "filled"
  /\ events[1].parsRec = NomParsRec /\ events[1].kinRec = NomKinRec
  /\ AllPresent(events[1])
  /\ Entries(hists, "hNECVsRapRec") = 1
  /\ SumW(hists, "hNECVsRapRec", FindBin(200, -15000, 5000, -1099)) = 250

\* the columns of an event whose four collections are present
ColumnsOf(e) == Columns(e, K(0, 0))

\* the 1D bookings
Bookings1D == {Bookings[i] : i \in {j \in DOMAIN Bookings : Bookings[j].def.dim = 1}}

\* the 2D bookings
Bookings2D == {Bookings[i] : i \in {j \in DOMAIN Bookings : Bookings[j].def.dim = 2}}

\* element i of column bk.x of event e is undefined or divergent: a NaN or
\* an infinity, or the polar angle of a zero momentum vector
Anomalous(e, bk, i) ==
  \/ ~IsFinite(ColumnsOf(e)[bk.x][i])
  \/ bk.x = "thRec" /\ e.parsRec[i].momentum = <<0, 0, 0>>
  \/ bk.x = "thGen" /\ e.parsGen[i].momentum = <<0, 0, 0>>

\* C5 as stated: an undefined or divergent derived value produces no fill
\* of its histogram, every other fill of the event happens, nothing aborts.
C5_AnomaliesExcluded ==
  [][ (pc = "fill" /\ AllPresent(events[idx]))
        => LET e == events[idx]
           IN /\ pc' # "crash"
              /\ \A bk \in Bookings1D :
                   Entries(hists', bk.def.name) - Entries(hists, bk.def.name)
                     = Cardinality({i \in DOMAIN ColumnsOf(e)[bk.x] : ~Anomalous(e, bk, i)}) ]_vars

\* what the underflow and overflow bins of a 1D histogram hold
Outside(hs, def) == SumW(hs, def.name, 0) + SumW(hs, def.name, def.xnum + 1)

\* v falls in no in-range bin of the axis of def
OffAxis(def, v) == ~IsFinite(v) \/ v < def.xstart \/ v >= def.xstop

\* C5 as amended: an undefined or divergent value is filled all the same.
\* Every booked histogram gains one entry per element of its column; a NaN
\* or infinite value is counted in the underflow or overflow bin, never in
\* an in-range bin; the polar angle of a zero momentum vector is 0 and is
\* filled in range; an event with all four collections present never aborts.
C5_AnomaliesFilled ==
  [][ (pc = "fill" /\ AllPresent(events[idx]))
        => LET e == events[idx]
               cols == ColumnsOf(e)
           IN /\ pc' # "crash"
              /\ \A bk \in Bookings1D \cup Bookings2D :
                   Entries(hists', bk.def.name) - Entries(hists, bk.def.name)
                     = Len(cols[bk.x])
              /\ \A bk \in {b \in Bookings1D : b.w = ""} :
                   Outside(hists', bk.def) - Outside(hists, bk.def)
                     = 1000 * Cardinality({i \in DOMAIN cols[bk.x] : OffAxis(bk.def, cols[bk.x][i])})
              /\ \A i \in DOMAIN e.parsRec :
                   e.parsRec[i].momentum = <<0, 0, 0>> =>
                     /\ cols["thRec"][i] = 0
                     /\ SumW(hists', "hThetaParRec", FindBin(90, -3150, 3150, 0))
                          > SumW(hists, "hThetaParRec", FindBin(90, -3150, 3150, 0)) ]_vars

\* C5 witness: an event with x_rec = 0 was filled, and ln x = -inf sits as
\* one entry in the underflow bin of hLogXBRec
C5_Witness ==
  /\ idx = 2
  /\ lastOutcome = "filled"
  /\ AllPresent(events[1])
  /\ events[1].kinRec[1].x = 0
  /\ Entries(hists, "hLogXBRec") = 1
  /\ SumW(hists, "hLogXBRec", 0) = 1000
  /\ Entries(hists, "hXBRec") = 1


\* the output cannot be created, or the input cannot be opened or is empty
ResourceFailure == ~outCreatable \/ ~inReadable \/ Len(events) = 0

\* C6: on a resource failure the run stops before it processes any event or
\* produces any histogram, and it leaves no output file behind.
C6_FatalResourceErrors ==
  ResourceFailure =>
    /\ pc \notin {"book", "filter", "cut", "fill", "write", "done"}
    /\ DOMAIN hists = {}
    /\ (pc \in {"panic", "crash"} => ~artifact)

\* C7: at successful completion the output file holds every histogram the
\* registry declares, each under its own name, and no two share a name.
C7_OutputComplete ==
  (pc = "done" /\ artifact) =>
    /\ DeclaredNames \subseteq written
    /\ Cardinality(DeclaredNames)
         = Cardinality(DOMAIN hist1D) + Cardinality(DOMAIN hist2D)

\* the event-scalar histograms: Q2, ln Q2, x, ln x of both views, and the
\* four rec-vs-gen correlations
ScalarNames ==
  { "hQ2Rec", "hQ2Gen", "hLogQ2Rec", "hLogQ2Gen", "hXBRec", "hXBGen",
    "hLogXBRec", "hLogXBGen",
    "hXBRecVsGen", "hLogXBRecVsGen", "hQ2RecVsGen", "hLogQ2RecVsGen" }

\* C9: an event with all four collections present and Q2 in the window puts
\* exactly one fill into each event-scalar 1D histogram and into each of the
\* four 2D histograms, however many particles it has.
C9_EventScalarFills ==
  [][ (InEvent /\ AllPresent(events[idx]) /\ InWindow(events[idx]))
        => /\ pc' # "crash"
           /\ (idx' = idx) =>
                \A n \in ScalarNames : Entries(hists', n) = Entries(hists, n)
           /\ (idx' = idx + 1) =>
                \A n \in ScalarNames : Entries(hists', n) = Entries(hists, n) + 1 ]_vars

\* C9 witness: an event with two reconstructed particles was filled, and
\* each event-scalar histogram holds one entry
C9_Witness ==
  /\ idx = 2
  /\ lastOutcome = "filled"
  /\ AllPresent(events[1])
  /\ Len(events[1].parsRec) = 2
  /\ \A n \in ScalarNames : Entries(hists, n) = 1
  /\ Entries(hists, "hThetaParRec") = 2

\* C10: front() is read only on a collection that holds a record.
C10_FrontReadsGuarded == \A r \in frontReads : r.size > 0


\* ------------------------------------------- two runs, permuted order
\* the whole chain on one event: the filters, then the Defines and the
\* booked fills; o is the outcome of front() on InclusiveKinematicsTruth.
\* A process that dies leaves no histogram.
ProcessEvent(run, e, o) ==
  IF hasKine(e.kinRec) /\ hasPars(e.parsRec) /\ hasPars(e.parsGen)
       /\ cutQ2(getQ2(e.kinRec, K(0, 0)))
    THEN IF o.crash
           THEN [n |-> Len(events), crashed |-> TRUE,
                 hists |-> [h \in BookedNames |-> EmptyHist]]
           ELSE [run EXCEPT !.n = @ + 1, !.hists = FillAll(@, Columns(e, o.rec))]
    ELSE [run EXCEPT !.n = @ + 1]

\* the orders in which n events can be processed
Orders(n) == {f \in [1..n -> 1..n] : \A i, j \in 1..n : f[i] = f[j] => i = j}

InitPerm ==
  /\ outCreatable = TRUE
  /\ inReadable = TRUE
  /\ events \in EventFiles
  /\ Len(events) > 0
  /\ pc = "loop"
  /\ idx = 0
  /\ hists = [n \in {} |-> EmptyHist]
  /\ artifact = TRUE
  /\ written = {}
  /\ wr = 0
  /\ nClose = 0
  /\ checked = {}
  /\ frontReads = {}
  /\ lastOutcome = "none"
  /\ declared = Registry
  /\ \E f \in Orders(Len(events)) :
       perm = [order |-> f,
               a |-> FreshRun([n \in BookedNames |-> EmptyHist]),
               b |-> FreshRun([n \in BookedNames |-> EmptyHist])]

\* the first run takes its next event, in file order
RunInOrder ==
  /\ perm.a.n < Len(events)
  /\ \E o \in FrontOutcomes(events[perm.a.n + 1].kinGen) :
       perm' = [perm EXCEPT !.a = ProcessEvent(@, events[perm.a.n + 1], o)]
  /\ UNCHANGED << events, outCreatable, inReadable, pc, idx, declared, hists, artifact,
                  written, wr, nClose, checked, frontReads, lastOutcome >>

\* the second run, once the first is over, takes its next event in the
\* permuted order
RunPermuted ==
  /\ perm.a.n = Len(events)
  /\ perm.b.n < Len(events)
  /\ \E o \in FrontOutcomes(events[perm.order[perm.b.n + 1]].kinGen) :
       perm' = [perm EXCEPT !.b = ProcessEvent(@, events[perm.order[perm.b.n + 1]], o)]
  /\ UNCHANGED << events, outCreatable, inReadable, pc, idx, declared, hists, artifact,
                  written, wr, nClose, checked, frontReads, lastOutcome >>

NextPerm == RunInOrder \/ RunPermuted

SpecPerm == InitPerm /\ [][NextPerm]_vars

\* C8: the same events processed in any permuted order end in the same fill
\* counts and the same bin contents (sum of weights and of squared weights,
\* underflow and overflow included) in every histogram.
C8_Commutative ==
  (perm.a.n = Len(events) /\ perm.b.n = Len(events) /\ perm.order # <<>>)
    => (perm.a.crashed = perm.b.crashed /\ perm.a.hists = perm.b.hists)


\* C11: every event is accumulated before the first histogram is written,
\* every write comes before the close, the output is closed exactly once
\* in a run that completes, and nothing is filled or written after the close.
C11_LifecycleOrder ==
  [][ /\ (wr' > wr) => (idx > Len(events) /\ nClose = 0)
      /\ (hists' # hists) => (wr = 0 /\ nClose = 0)
      /\ (nClose' > nClose) =>
           (nClose = 0 /\ wr = Len(WriteOrder) /\ idx > Len(events))
      /\ (nClose > 0) => (hists' = hists /\ written' = written /\ wr' = wr)
      /\ (pc' = "done") => (nClose' = 1 /\ wr' = Len(WriteOrder)) ]_vars

\* C11 witness: a run over two events, the last one filled, has written its
\* twenty histograms and closed the output once
C11_Witness ==
  /\ pc = "done"
  /\ Len(events) = 2
  /\ lastOutcome = "filled"
  /\ Entries(hists, "hQ2Rec") >= 1
  /\ written = BookedNames
  /\ wr = Len(WriteOrder)
  /\ nClose = 1


\* ------------------------------------- the earlier variant of the macro
\* The repository also holds an earlier EPNucleonEnergyCorrelatorPrototype.cxx:
\* a vector of four axes, six histogram models, one filter on the
\* reconstructed kinematics, a Q2 cut and a single booked histogram, hXBjork.

\* Options::minQ2 and Options::maxQ2 of its DefaultOptions
EarlyMinQ2 == 19500
EarlyMaxQ2 == 20500

\* std::vector<Axis> axes (indexed from 0 in the source, from 1 here)
earlyAxes ==
  << [title |-> "E [GeV]",              num |-> 200, start |-> 0,      stop |-> 200000],
     [title |-> "y = ln tan(#theta/2)", num |-> 200, start |-> -15000, stop |-> 5000],
     [title |-> "E/E_{p}",              num |-> 30,  start |-> -1000,  stop |-> 2000],
     [title |-> "x_{B}",                num |-> 60,  start |-> -1000,  stop |-> 2000] >>

\* TH1Def(name, title, nbins, low, high)
TH1Def(name, xtitle, num, start, stop) ==
  [name |-> name, dim |-> 1, xtitle |-> xtitle, xnum |-> num,
   xstart |-> start, xstop |-> stop,
   ytitle |-> "", ynum |-> 0, ystart |-> 0, ystop |-> 0]

\* std::vector<TH1Def> hists; axes[k] of the source is earlyAxes[k + 1]
earlyHists ==
  << TH1Def("hNEC",     earlyAxes[2].title, earlyAxes[2].num, earlyAxes[2].start, earlyAxes[3].stop),
     TH1Def("hRapPar",  earlyAxes[2].title, earlyAxes[2].num, earlyAxes[2].start, earlyAxes[2].stop),
     TH1Def("hEnePar",  earlyAxes[1].title, earlyAxes[1].num, earlyAxes[1].start, earlyAxes[1].stop),
     TH1Def("hEneNuc",  earlyAxes[1].title, earlyAxes[1].num, earlyAxes[1].start, earlyAxes[1].stop),
     TH1Def("hEneFrac", earlyAxes[3].title, earlyAxes[3].num, earlyAxes[3].start, earlyAxes[3].stop),
     TH1Def("hXBjork",  earlyAxes[4].title, earlyAxes[4].num, earlyAxes[4].start, earlyAxes[4].stop) >>

\* the registry of the earlier variant
EarlyRegistry ==
  [axes  |-> {earlyAxes[i] : i \in DOMAIN earlyAxes},
   hists |-> {earlyHists[i] : i \in DOMAIN earlyHists}]

\* cutQ2 of the earlier variant: Q2 of the first record strictly in the window
earlyCutQ2(kines, mem) ==
  Lt(EarlyMinQ2, front(kines, mem).Q2) /\ Lt(front(kines, mem).Q2, EarlyMaxQ2)

\* getXB of the earlier variant: it returns the Q2 field of the first record
earlyGetXB(kines, mem) == front(kines, mem).Q2

\* its inputs: reconstructed kinematics that are empty, inside the window,
\* on its lower bound, above it
EarlyKinChoices ==
  { <<>>, <<K(20000, 500)>>, <<K(20000, 1500)>>, <<K(19500, 500)>>, <<K(25000, 500)>> }

EarlyEvents ==
  { [kinRec |-> k, kinGen |-> NomKinGen, parsRec |-> NomParsRec, parsGen |-> NomParsGen] :
      k \in EarlyKinChoices }

EarlyEventFiles == UNION { [1..n -> EarlyEvents] : n \in 0..MaxEvents }

InitEarly ==
  /\ outCreatable \in BOOLEAN
  /\ inReadable \in BOOLEAN
  /\ events \in EarlyEventFiles
  /\ (~inReadable => events = <<>>)
  /\ pc = "openOutput"
  /\ idx = 0
  /\ hists = [n \in {} |-> EmptyHist]
  /\ artifact = FALSE
  /\ written = {}
  /\ wr = 0
  /\ nClose = 0
  /\ checked = {}
  /\ frontReads = {}
  /\ lastOutcome = "none"
  /\ declared = NoRegistry
  /\ perm = NoPerm

\* define histograms, then Histo1D(hists[5], "xBjork")
EarlyBook ==
  /\ pc = "book"
  /\ declared' = EarlyRegistry
  /\ hists' = [n \in {"hXBjork"} |-> EmptyHist]
  /\ idx' = 1
  /\ pc' = "filter"
  /\ UNCHANGED << env, artifact, written, wr, nClose, checked, frontReads, lastOutcome >>

\* Filter(hasKine, {"InclusiveKinematicsElectron"})
EarlyFilterKine ==
  /\ pc = "filter"
  /\ frontReads' = {}
  /\ IF hasKine(events[idx].kinRec)
       THEN /\ checked' = {RecKine}
            /\ pc' = "cut"
            /\ UNCHANGED << idx, lastOutcome >>
       ELSE /\ checked' = {}
            /\ pc' = AfterEvent(idx + 1)
            /\ idx' = idx + 1
            /\ lastOutcome' = "noCollection"
  /\ UNCHANGED << env, declared, hists, artifact, written, wr, nClose >>

\* Filter(cutQ2, {"InclusiveKinematicsElectron"})
EarlyFilterQ2 ==
  /\ pc = "cut"
  /\ frontReads' = frontReads \cup {[coll |-> RecKine, size |-> Len(events[idx].kinRec)]}
  /\ IF earlyCutQ2(events[idx].kinRec, K(0, 0))
       THEN /\ pc' = "fill"
            /\ UNCHANGED << idx, lastOutcome >>
       ELSE /\ pc' = AfterEvent(idx + 1)
            /\ idx' = idx + 1
            /\ lastOutcome' = "outOfRange"
  /\ UNCHANGED << env, declared, hists, artifact, written, wr, nClose, checked >>

\* Define("xBjork", getXB, ...) and the fill of hXBjork
EarlyFill ==
  /\ pc = "fill"
  /\ hists' = [hists EXCEPT !["hXBjork"] =
                 Fill1D(@, earlyHists[6], earlyGetXB(events[idx].kinRec, K(0, 0)), 1000)]
  /\ idx' = idx + 1
  /\ pc' = AfterEvent(idx + 1)
  /\ lastOutcome' = "filled"
  /\ UNCHANGED << env, declared, artifact, written, wr, nClose, checked, frontReads >>

\* hXBjork -> Write()
EarlyWrite ==
  /\ pc = "write"
  /\ wr = 0
  /\ wr' = 1
  /\ written' = IF artifact THEN written \cup {"hXBjork"} ELSE written
  /\ UNCHANGED << env, declared, pc, idx, hists, artifact, nClose, checked,
                  frontReads, lastOutcome >>

\* close files
EarlyClose ==
  /\ pc = "write"
  /\ wr = 1
  /\ nClose' = nClose + 1
  /\ pc' = "done"
  /\ UNCHANGED << env, declared, idx, hists, artifact, written, wr, checked,
                  frontReads, lastOutcome >>

NextEarly ==
  \/ OpenOutput
  \/ OpenInput
  \/ EarlyBook
  \/ EarlyFilterKine
  \/ EarlyFilterQ2
  \/ EarlyFill
  \/ EarlyWrite
  \/ EarlyClose

SpecEarly == InitEarly /\ [][NextEarly]_vars

\* ---------------------------------------------- axes and Bjorken x

\* the axes a histogram model carries: title, bin count, lower and upper edge
HistAxes(h) ==
  {[title |-> h.xtitle, num |-> h.xnum, start |-> h.xstart, stop |-> h.xstop]}
    \cup (IF h.dim = 2
            THEN {[title |-> h.ytitle, num |-> h.ynum, start |-> h.ystart, stop |-> h.ystop]}
            ELSE {})

\* C12: every declared histogram takes title, bin count, lower edge and upper
\* edge of each of its axes from one single declared axis, so two histograms
\* whose axes carry the same quantity have the same bin count and range.
C12_AxisConsistency ==
  \A h \in declared.hists : \A a \in HistAxes(h) :
    /\ a \in declared.axes
    /\ \A g \in declared.hists : \A c \in HistAxes(g) :
         (c.title = a.title) => (c.num = a.num /\ c.start = a.start /\ c.stop = a.stop)

\* the histograms of x and of Q2 of either variant, each with the collection
\* and the field of its first record the value is to come from
DerivedHists ==
  { [def |-> hist1D["xrec"], coll |-> "kinRec", field |-> "x"],
    [def |-> hist1D["xgen"], coll |-> "kinGen", field |-> "x"],
    [def |-> hist1D["qrec"], coll |-> "kinRec", field |-> "Q2"],
    [def |-> hist1D["qgen"], coll |-> "kinGen", field |-> "Q2"],
    [def |-> earlyHists[6],  coll |-> "kinRec", field |-> "x"] }

\* C13: a fill of an event adds its one entry of each booked x histogram at
\* the bin of the x field of the first record of that view's kinematics, and
\* of each Q2 histogram at the bin of that record's Q2 field; an x histogram
\* never receives the Q2 value.
C13_BjorkenX ==
  [][ (pc = "fill" /\ idx' = idx + 1)
        => \A t \in DerivedHists :
             (t.def.name \in DOMAIN hists /\ events[idx][t.coll] # <<>>)
               => \A b \in 0..(t.def.xnum + 1) :
                    SumW(hists', t.def.name, b) - SumW(hists, t.def.name, b)
                      = IF b = FindBin(t.def.xnum, t.def.xstart, t.def.xstop,
                                       events[idx][t.coll][1][t.field])
                          THEN 1000 ELSE 0 ]_vars

=============================================================================
